---- MODULE Spec2Model ----
(***************************************************************************)
(* A model of rusty-uevr: the plugin-state singleton (API / INSTANCE), the *)
(* lazily resolved per-type function tables generated by define_object!,   *)
(* the host-delegated downcast (Ptr::cast / StaticClass::is_a) and the     *)
(* host-allocator-backed array TArray<T>.                                  *)
(*                                                                         *)
(* Pointers are natural numbers, 0 is the null pointer.  The host is the   *)
(* environment: its SDK data block, its object registry, its is_a answers  *)
(* and its allocator are state or inputs the model does not control.       *)
(***************************************************************************)
EXTENDS Naturals, Integers, Sequences, FiniteSets, TLC

\* ------------------------------------------------------------------ bounds
\* Host threads that call into the layer.
NThreads == 2
\* Distinct parameter blocks the host may pass to API::initialize.
NParams == 2
\* Host objects a handle may point to (besides the null handle).
NObjs == 1
\* Buffers of the host allocator.
NBufs == 1
\* The callbacks setup_callbacks registers with the host (7 plugin, 8 SDK).
NCallbacks == 15
\* Host objects that have an outer (besides the class object).
NNodes == 3
\* Iterations of the outer-chain walk of get_full_name whose count and name are
\* kept exactly (past them only the parity of the count is kept).
MaxWalk == 3
\* Non-null addresses a raw pointer or a handle may hold.
NAddrs == 3
\* TArray values created on the Rust side in one run (by get_console_objects or clone).
MaxArrays == 2
\* How often the host rewrites a field of its SDK data block (SpecTableHost).
MaxHostStores == 1
\* The largest count or length the host answers a size query with.
MaxFill == 3
\* `let mut result = [0; 256];` in vr::get_mod_value.
ModValueLen == 256
\* The largest element count of a TArray whose begin() and end() are taken.
MaxCount == 3

Threads == 1..NThreads
Params == 1..NParams

\* The table-bearing types modelled, and the SDK field each resolves from
\* (define_object!(FMalloc, @functions(.., malloc)), (UObject, @functions(.., uobject)),
\* (FConsoleManager, @functions(.., console)), (FName, @functions(.., fname)),
\* (UField, .. ufield), (UStruct, .. ustruct), (FField, .. ffield)).
TableTypes == {"FMalloc", "UObject", "FConsoleManager", "FName", "UField", "UStruct", "FField"}

VARIABLES
    instance,    \* INSTANCE: 0 is None, p is Some(API{param: p, sdk: p.sdk})
    poisoned,    \* the Mutex of INSTANCE (taken and released within one step) is poisoned
    sdkField,    \* the host's SDK data: sdkField[p][ty] is the table pointer of ty in block p
    fns,         \* the static mut __<Type>_fns slots, fns[ty]
    crashed,     \* the process has faulted (a null table was dereferenced)
    pc,          \* pc[t]: where thread t is in the call it is running
    loc,         \* loc[t]: the locals of that call
    gets,        \* history: the parameter blocks API::get has returned
    inits,       \* history: the parameter blocks of the API::initialize calls that returned
    panics,      \* history: the calls that ended in a panic ("get", "initialize", "table")
    cachedRets,  \* history: cachedRets[ty], pointers returned by calls that found the slot set
    firstParam,  \* history: the parameter block of the first API::initialize that held the lock
    resolves,    \* history: resolves[ty][t], times thread t ran the resolution path of ty
    rets,        \* history: rets[ty], the table pointers initialize() has returned for ty (0: a null table)
    hostStores,  \* history: number of host stores to the SDK data block
    registry,    \* the host's object registry: registry[T] is what find_uobject answers for T's class name
    hostIsA,     \* the host's type relation: the pairs <<object, class>> for which is_a answers true
    castOp,      \* the last downcast made: its arguments, the host calls it made, its result
    hostArr,     \* the TArray descriptor inside the host that get_console_objects points at
    arrs,        \* arrs[i]: the i-th TArray (then Vec) value created on the Rust side
    hostFrees,   \* history: hostFrees[b], calls of the host's free function with pointer b
    localFrees,  \* history: localFrees[b], deallocations of b by the local (Rust) allocator
    consumed,    \* history: the buffers that TArray::to_vec turned into a Vec
    arrOp,       \* the last array operation: what it was called on and the host calls it made
    hs,          \* handle conversions: the input drawn and the values the conversions made of it
    outerOf,     \* the host's objects: outerOf[o] is what get_outer answers for o (0: null)
    fnSt,        \* the get_full_name call in progress or last made: its locals and its result
    qry,         \* the last foreign query made: the host's answer and what the caller got
    fill,        \* the last exchange in which the host filled a buffer of the layer
    iter,        \* a TArray<T> (T of esize bytes) and what begin() and end() made of it
    plugin,      \* _GLOBAL_PLUGIN is Some: DllMain has registered the plugin
    su,          \* the uevr_plugin_initialize call in progress or last made
    hostCbs,     \* the host's registration slots that hold one of the layer's trampolines
    order        \* history: the start-up events in the order of their first occurrence

apiVars == <<instance, poisoned, sdkField, fns, crashed, pc, loc, gets, inits, panics,
             cachedRets, firstParam, resolves, rets, hostStores>>

castVars == <<registry, hostIsA, castOp>>

arrVars == <<hostArr, arrs, hostFrees, localFrees, consumed, arrOp>>

nameVars == <<outerOf, fnSt>>

pureVars == <<hs, nameVars, qry, fill, iter>>

startVars == <<plugin, su, hostCbs, order>>

vars == <<apiVars, castVars, arrVars, pureVars, startVars>>

\* The types whose accessors the plugin's threads call concurrently (any type's
\* initialize() may be called from any callback thread; the slots are independent).
RacedTypes == {"FMalloc", "UObject"}

\* ------------------------------------------------------------ host SDK data
\* The n-th field of the SDK data block that a type's table is read from.
FieldIndex(ty) ==
    IF ty = "FMalloc" THEN 1 ELSE IF ty = "UObject" THEN 2
    ELSE IF ty = "FConsoleManager" THEN 3 ELSE IF ty = "FName" THEN 4
    ELSE IF ty = "UField" THEN 5 ELSE IF ty = "UStruct" THEN 6 ELSE 7

\* The table pointer the host put in block p for ty: every table of every block
\* is a distinct non-null address.
HostTable(p, ty) == (p - 1) * Cardinality(TableTypes) + FieldIndex(ty)

\* A table address the host did not hand out at start-up.
FreshTable == NParams * Cardinality(TableTypes) + 1

\* ------------------------------------------------------------- API singleton
\* The body of API::initialize under the lock: install only when empty.
InitializeBody_overwrite(inst, p) == p

InitializeBody(inst, p) == IF inst = 0 THEN p ELSE inst

\* INSTANCE.lock().unwrap().as_ref().expect(..).clone(): what API::get yields.
GetOutcome_unchecked(inst, pois) == IF pois THEN "poison" ELSE "ok"

\* "poison": lock() returned a PoisonError and unwrap panicked.
\* "none":   the Option was None and expect panicked.
GetOutcome(inst, pois) ==
    IF pois THEN "poison" ELSE IF inst = 0 THEN "none" ELSE "ok"

\* The MutexGuard is a temporary of the whole expression: when expect panics it
\* is dropped during unwinding, which poisons the Mutex.
PoisonAfterGet(inst, pois) == pois \/ inst = 0

NoLocals == [ty |-> "", tmp |-> 0, resolved |-> FALSE]

\* API::initialize(param): INSTANCE.lock().unwrap(), the is_none test, the store and
\* the guard's drop.  Every access to INSTANCE is made under its Mutex, so the
\* critical section is one step.
API_initialize(t, p) ==
    /\ ~crashed
    /\ pc[t] = "idle"
    /\ IF poisoned
       THEN /\ panics' = panics \cup {"initialize"}
            /\ UNCHANGED <<instance, firstParam, inits>>
       ELSE /\ instance' = InitializeBody(instance, p)
            /\ firstParam' = IF firstParam = 0 THEN p ELSE firstParam
            /\ inits' = inits \cup {p}
            /\ UNCHANGED panics
    /\ UNCHANGED <<poisoned, sdkField, fns, crashed, pc, loc, gets, cachedRets, resolves,
                   rets, hostStores>>

\* API::get(): the lock is taken and released inside the one expression.
API_get(t) ==
    /\ ~crashed
    /\ pc[t] = "idle"
    /\ IF GetOutcome(instance, poisoned) = "ok"
       THEN gets' = gets \cup {instance} /\ UNCHANGED panics
       ELSE panics' = panics \cup {"get"} /\ UNCHANGED gets
    /\ poisoned' = PoisonAfterGet(instance, poisoned)
    /\ UNCHANGED <<instance, sdkField, fns, crashed, pc, loc, inits, cachedRets,
                   firstParam, resolves, rets, hostStores>>

\* ------------------------------------------------- lazy function-table slots
\* `if #global.is_null()`: the slot is resolved only when it is still null.
NeedsResolve_always(slotv) == TRUE

NeedsResolve(slotv) == slotv = 0

\* `(*API::get().sdk()).#ident`: the field of the installed block's SDK data.
ReadField_wrong(sdk, inst, ty) ==
    sdk[inst][CHOOSE other \in TableTypes : other # ty]

ReadField(sdk, inst, ty) == sdk[inst][ty]

\* `&*#global`: the slots are static mut without synchronisation, so a call that
\* wrote the slot may return the pointer it wrote (kept in a register) or the
\* slot as it is now; a call that found the slot set returns the slot.
ReturnChoices_local(slotv, tmpv, resolved) == {tmpv}

ReturnChoices(slotv, tmpv, resolved) ==
    IF resolved THEN {slotv, tmpv} ELSE {slotv}

\* <Type>::initialize(), the null check of the slot.
initialize_check(t, ty) ==
    /\ ~crashed
    /\ pc[t] = "idle"
    /\ loc' = [loc EXCEPT ![t] = [NoLocals EXCEPT !.ty = ty]]
    /\ pc' = [pc EXCEPT ![t] = IF NeedsResolve(fns[ty]) THEN "tbl_resolve" ELSE "tbl_ret"]
    /\ UNCHANGED <<instance, poisoned, sdkField, fns, crashed, gets, inits, panics,
                   cachedRets, firstParam, resolves, rets, hostStores>>

\* <Type>::initialize(), the right-hand side of the store: API::get() and the
\* read of the SDK field.  API::get() panics when the singleton is empty.
\* (h: whether the step is recorded in the history variables.)
initialize_resolve(t, h) ==
    /\ ~crashed
    /\ pc[t] = "tbl_resolve"
    /\ poisoned' = PoisonAfterGet(instance, poisoned)
    /\ IF GetOutcome(instance, poisoned) = "ok"
       THEN /\ loc' = [loc EXCEPT ![t].tmp = ReadField(sdkField, instance, loc[t].ty),
                                  ![t].resolved = TRUE]
            /\ pc' = [pc EXCEPT ![t] = "tbl_write"]
            /\ resolves' = IF h THEN [resolves EXCEPT ![loc[t].ty][t] = @ + 1] ELSE resolves
            /\ UNCHANGED panics
       ELSE /\ panics' = IF h THEN panics \cup {"table"} ELSE panics
            /\ pc' = [pc EXCEPT ![t] = "idle"]
            /\ loc' = [loc EXCEPT ![t] = NoLocals]
            /\ UNCHANGED resolves
    /\ UNCHANGED <<instance, sdkField, fns, crashed, gets, inits, cachedRets, firstParam,
                   rets, hostStores>>

\* <Type>::initialize(), the store to the slot.
initialize_write(t) ==
    /\ ~crashed
    /\ pc[t] = "tbl_write"
    /\ fns' = [fns EXCEPT ![loc[t].ty] = loc[t].tmp]
    /\ pc' = [pc EXCEPT ![t] = "tbl_ret"]
    /\ UNCHANGED <<instance, poisoned, sdkField, crashed, loc, gets, inits, panics,
                   cachedRets, firstParam, resolves, rets, hostStores>>

\* <Type>::initialize(), `&*#global`: the table the caller goes on to read.  A null
\* table faults as soon as the caller reads its first entry.
initialize_return(t, h) ==
    /\ ~crashed
    /\ pc[t] = "tbl_ret"
    /\ \E v \in ReturnChoices(fns[loc[t].ty], loc[t].tmp, loc[t].resolved) :
        /\ crashed' = (v = 0)
        /\ rets' = IF ~h THEN rets ELSE [rets EXCEPT ![loc[t].ty] = @ \cup {v}]
        /\ cachedRets' = IF loc[t].resolved \/ ~h THEN cachedRets
                          ELSE [cachedRets EXCEPT ![loc[t].ty] = @ \cup {v}]
    /\ pc' = [pc EXCEPT ![t] = "idle"]
    /\ loc' = [loc EXCEPT ![t] = NoLocals]
    /\ UNCHANGED <<instance, poisoned, sdkField, fns, gets, inits, panics, firstParam,
                   resolves, hostStores>>

\* The host rewrites one field of the SDK data block the layer was given: it
\* clears it or stores the address of another table.  (A block that is not the
\* installed one is never read, so stores to it are not modelled.)
Host_store_field(p, ty, v) ==
    /\ ~crashed
    /\ p = instance
    /\ hostStores < MaxHostStores
    /\ sdkField[p][ty] # v
    /\ sdkField' = [sdkField EXCEPT ![p][ty] = v]
    /\ hostStores' = hostStores + 1
    /\ UNCHANGED <<instance, poisoned, fns, crashed, pc, loc, gets, inits, panics,
                   cachedRets, firstParam, resolves, rets>>

\* ------------------------------------------------------ dynamic type system
\* The class-bound handle types modelled (define_object!(.., @class("..")).
ClassTypes == {"UObject", "UWorld"}

\* The address of the host's class object for T's class name, when it is loaded.
ClassAddr(T) == IF T = "UObject" THEN 1 ELSE 2

\* Handles: 0 is the null handle.
Objs == 0..NObjs

NoCast == [op |-> "none", obj |-> 0, target |-> "", out |-> "none", ptr |-> 0,
           finds |-> 0, isaCalls |-> 0, isaObj |-> 0, isaClass |-> 0, isaAnswer |-> FALSE,
           prev |-> "none"]

InitCastVars ==
    /\ registry = [T \in ClassTypes |-> ClassAddr(T)]
    /\ hostIsA = {}
    /\ castOp = NoCast

\* <Type>::initialize() run to its end by one caller: how it ends, the slot and
\* the poison flag after it.
TableCall(ty) ==
    IF ~NeedsResolve(fns[ty])
    THEN [out |-> "ok", slot |-> fns[ty], pois |-> poisoned]
    ELSE IF GetOutcome(instance, poisoned) # "ok"
    THEN [out |-> "panic", slot |-> fns[ty], pois |-> PoisonAfterGet(instance, poisoned)]
    ELSE LET v == ReadField(sdkField, instance, ty) IN
         [out |-> IF v = 0 THEN "fault" ELSE "ok", slot |-> v, pois |-> poisoned]

\* <Type>::initialize() run to its end by one caller: the slot after the call.
SlotAfterInitialize(slotv, fieldv) == IF NeedsResolve(slotv) THEN fieldv ELSE slotv

\* API::find_uobject: a null answer of the host is None (written 0), else the handle.
FindUObject(reg, T) == reg[T]

\* The if/else of Ptr::cast on the answer of is_a: Some(T::from_ptr(self.to_ptr())) or None.
CastResult_unchecked(isa, ptr) == [out |-> "Some", ptr |-> ptr]

CastResult(isa, ptr) ==
    IF isa THEN [out |-> "Some", ptr |-> ptr] ELSE [out |-> "None", ptr |-> 0]

\* The host's is_a function on its type relation.
HostIsA_cached(rel, o, cls) ==
    IF castOp.isaCalls = 1 /\ castOp.isaObj = o /\ castOp.isaClass = cls
    THEN castOp.isaAnswer ELSE <<o, cls>> \in rel

HostIsA(rel, o, cls) == <<o, cls>> \in rel

\* What the host answered the operation before this one, when that one asked is_a
\* about the same object and class ("none" when it did not).
PrevAnswer(o, cls) ==
    IF castOp.isaCalls = 1 /\ castOp.isaObj = o /\ castOp.isaClass = cls
    THEN (IF castOp.isaAnswer THEN "true" ELSE "false") ELSE "none"

\* T::static_class_safe(): API::get().find_uobject(<class name of T>).
StaticClass_static_class_safe(T) ==
    /\ ~crashed
    /\ \A t \in Threads : pc[t] = "idle"
    /\ LET got == GetOutcome(instance, poisoned)
           cls == IF got = "ok" THEN FindUObject(registry, T) ELSE 0
       IN
       /\ poisoned' = PoisonAfterGet(instance, poisoned)
       /\ castOp' = [NoCast EXCEPT !.op = "static_class_safe", !.target = T,
                                   !.out = IF got # "ok" THEN "panic"
                                           ELSE IF cls = 0 THEN "None" ELSE "Some",
                                   !.ptr = cls,
                                   !.finds = IF got = "ok" THEN 1 ELSE 0]
    /\ UNCHANGED <<instance, sdkField, fns, crashed, pc, loc, gets, inits, panics, cachedRets,
                   firstParam, resolves, rets, hostStores, registry, hostIsA>>

\* T::static_class(): static_class_safe().unwrap().
StaticClass_static_class(T) ==
    /\ ~crashed
    /\ \A t \in Threads : pc[t] = "idle"
    /\ LET got == GetOutcome(instance, poisoned)
           cls == IF got = "ok" THEN FindUObject(registry, T) ELSE 0
       IN
       /\ poisoned' = PoisonAfterGet(instance, poisoned)
       /\ castOp' = [NoCast EXCEPT !.op = "static_class", !.target = T,
                                   !.out = IF cls = 0 THEN "panic" ELSE "Some",
                                   !.ptr = cls,
                                   !.finds = IF got = "ok" THEN 1 ELSE 0]
    /\ UNCHANGED <<instance, sdkField, fns, crashed, pc, loc, gets, inits, panics, cachedRets,
                   firstParam, resolves, rets, hostStores, registry, hostIsA>>

\* o.is_a(cmp), cmp being the class object of T that the caller holds:
\* UObject::initialize() and the host's is_a.
StaticClass_is_a(o, T) ==
    /\ ~crashed
    /\ \A t \in Threads : pc[t] = "idle"
    /\ LET tc  == TableCall("UObject")
           cls == ClassAddr(T)
           ans == tc.out = "ok" /\ HostIsA(hostIsA, o, cls)
       IN
       /\ poisoned' = tc.pois
       /\ fns' = [fns EXCEPT !["UObject"] = tc.slot]
       /\ crashed' = (tc.out = "fault")
       /\ castOp' = [NoCast EXCEPT !.op = "is_a", !.obj = o, !.target = T,
                                   !.out = IF tc.out # "ok" THEN tc.out
                                           ELSE IF ans THEN "true" ELSE "false",
                                   !.isaCalls = IF tc.out = "ok" THEN 1 ELSE 0,
                                   !.isaObj = IF tc.out = "ok" THEN o ELSE 0,
                                   !.isaClass = IF tc.out = "ok" THEN cls ELSE 0,
                                   !.isaAnswer = ans,
                                   !.prev = IF tc.out = "ok" THEN PrevAnswer(o, cls) ELSE "none"]
    /\ UNCHANGED <<instance, sdkField, pc, loc, gets, inits, panics, cachedRets,
                   firstParam, resolves, rets, hostStores, registry, hostIsA>>

\* o.cast::<T>().  In order: T::static_class() (API::get, the host's
\* find_uobject, unwrap), then is_a (UObject::initialize, the host's is_a), then
\* the if/else.  A panic or a fault ends the call where it happens.
cast(o, T) ==
    /\ ~crashed
    /\ \A t \in Threads : pc[t] = "idle"
    /\ LET got   == GetOutcome(instance, poisoned)
           cls   == IF got = "ok" THEN FindUObject(registry, T) ELSE 0
           table == IF cls # 0
                    THEN SlotAfterInitialize(fns["UObject"], ReadField(sdkField, instance, "UObject"))
                    ELSE fns["UObject"]
           asked == cls # 0 /\ table # 0
           ans   == asked /\ HostIsA(hostIsA, o, cls)
           r     == CastResult(ans, o)
       IN
       /\ poisoned' = PoisonAfterGet(instance, poisoned)
       /\ fns' = [fns EXCEPT !["UObject"] = table]
       /\ crashed' = (cls # 0 /\ table = 0)
       /\ castOp' = [op |-> "cast", obj |-> o, target |-> T,
                     out |-> IF got # "ok" \/ cls = 0 THEN "panic"
                             ELSE IF table = 0 THEN "fault" ELSE r.out,
                     ptr |-> IF asked THEN r.ptr ELSE 0,
                     finds |-> IF got = "ok" THEN 1 ELSE 0,
                     isaCalls |-> IF asked THEN 1 ELSE 0,
                     isaObj |-> IF asked THEN o ELSE 0,
                     isaClass |-> IF asked THEN cls ELSE 0,
                     isaAnswer |-> ans,
                     prev |-> IF asked THEN PrevAnswer(o, cls) ELSE "none"]
    /\ UNCHANGED <<instance, sdkField, pc, loc, gets, inits, panics, cachedRets,
                   firstParam, resolves, rets, hostStores, registry, hostIsA>>

\* o.unsafe_cast::<T>(): T::from_ptr(self.to_ptr()), and nothing else.
UnsafeCastResult_null(ptr) == [out |-> "T", ptr |-> 0]

UnsafeCastResult(ptr) == [out |-> "T", ptr |-> ptr]

Ptr_unsafe_cast(o, T) ==
    /\ ~crashed
    /\ \A t \in Threads : pc[t] = "idle"
    /\ LET r == UnsafeCastResult(o) IN
       castOp' = [NoCast EXCEPT !.op = "unsafe_cast", !.obj = o, !.target = T,
                                !.out = r.out, !.ptr = r.ptr]
    /\ castOp' # castOp
    /\ UNCHANGED <<apiVars, registry, hostIsA>>

\* The host loads or unloads the class object registered under T's class name.
Host_register(T) ==
    /\ ~crashed
    /\ registry' = [registry EXCEPT ![T] = IF registry[T] = 0 THEN ClassAddr(T) ELSE 0]
    /\ UNCHANGED <<apiVars, hostIsA, castOp>>

\* The host changes its mind on whether object o is a c.
Host_set_is_a(o, c) ==
    /\ ~crashed
    /\ hostIsA' = IF <<o, c>> \in hostIsA THEN hostIsA \ {<<o, c>>} ELSE hostIsA \cup {<<o, c>>}
    /\ UNCHANGED <<apiVars, registry, castOp>>

\* ------------------------------------------- host-allocator-backed TArray<T>
Bufs == 1..NBufs
ArrIds == 1..MaxArrays

\* struct TArray<T> { data, count, capacity }, with where the value is in its life:
\* "free" (not created yet), "array" (a live TArray), "vec" (a live Vec made by
\* to_vec), "dropped".
NoArr == [st |-> "free", data |-> 0, count |-> 0, capacity |-> 0]
EmptyDesc == [data |-> 0, count |-> 0, capacity |-> 0]
\* The descriptors the host keeps: the null one, or a buffer with room for an element
\* that holds none or one (the code tests a count only against 0).
HostDescs ==
    {EmptyDesc} \cup {[data |-> b, count |-> n, capacity |-> 1] : b \in Bufs, n \in {0, 1}}

NoArrOp == [op |-> "none", id |-> 0, data |-> 0, calls |-> <<>>, out |-> "none"]

InitArrVars ==
    /\ hostArr = EmptyDesc
    /\ arrs = [i \in ArrIds |-> NoArr]
    /\ hostFrees = [b \in Bufs |-> 0]
    /\ localFrees = [b \in Bufs |-> 0]
    /\ consumed = {}
    /\ arrOp = NoArrOp

\* TArray::empty
empty(a) == a.count = 0 \/ a.data = 0

\* The host calls of <TArray as Drop>::drop on a descriptor: none for a null data
\* pointer, else FMalloc::get() and FMalloc::free(data).
DropCalls_unguarded(a) == << <<"FMalloc::get", 0>>, <<"FMalloc::free", a.data>> >>

DropCalls_none(a) == <<>>

DropCalls(a) ==
    IF a.data # 0
    THEN << <<"FMalloc::get", 0>>, <<"FMalloc::free", a.data>> >>
    ELSE <<>>

\* hostFrees after the host calls cs were made.
RECURSIVE FreesAfter(_, _)
FreesAfter(fr, cs) ==
    IF cs = <<>> THEN fr
    ELSE LET c == Head(cs)
             nx == IF c[1] = "FMalloc::free" /\ c[2] \in DOMAIN fr
                   THEN [fr EXCEPT ![c[2]] = @ + 1] ELSE fr
         IN FreesAfter(nx, Tail(cs))

\* The first TArray value not created yet, 0 when MaxArrays were created.
NextId == IF \E i \in ArrIds : arrs[i].st = "free"
          THEN CHOOSE i \in ArrIds : arrs[i].st = "free" /\ \A j \in ArrIds : j < i => arrs[j].st # "free"
          ELSE 0

\* <TArray as Clone>::clone: the triple is copied, the buffer is shared.
CloneOf(a) == [st |-> "array", data |-> a.data, count |-> a.count, capacity |-> a.capacity]

\* FConsoleManager::get_console_objects: FConsoleManager::initialize,
\* the host call, and a clone of the descriptor the host's answer points at.
FConsoleManager_get_console_objects ==
    /\ ~crashed
    /\ NextId # 0
    /\ LET tc == TableCall("FConsoleManager") IN
       /\ fns' = [fns EXCEPT !["FConsoleManager"] = tc.slot]
       /\ poisoned' = tc.pois
       /\ crashed' = (tc.out = "fault")
       /\ arrs' = IF tc.out = "ok" THEN [arrs EXCEPT ![NextId] = CloneOf(hostArr)] ELSE arrs
       /\ arrOp' = [op |-> "get_console_objects", id |-> IF tc.out = "ok" THEN NextId ELSE 0,
                    data |-> IF tc.out = "ok" THEN hostArr.data ELSE 0,
                    calls |-> IF tc.out = "ok" THEN << <<"get_console_objects", 0>> >> ELSE <<>>,
                    out |-> tc.out]
    /\ UNCHANGED <<instance, sdkField, pc, loc, gets, inits, panics, cachedRets,
                   firstParam, resolves, rets, hostStores, hostArr, hostFrees, localFrees,
                   consumed>>

\* a.clone() of the live TArray i.
TArray_clone(i) ==
    /\ ~crashed
    /\ arrs[i].st = "array"
    /\ NextId # 0
    /\ arrs' = [arrs EXCEPT ![NextId] = CloneOf(arrs[i])]
    /\ arrOp' = [op |-> "clone", id |-> NextId, data |-> arrs[i].data, calls |-> <<>>, out |-> "ok"]
    /\ UNCHANGED <<apiVars, hostArr, hostFrees, localFrees, consumed>>

\* What running <TArray as Drop>::drop on descriptor a does to the tables and the
\* host: FMalloc::get() resolves the FMalloc table on first use.
DropEffect(a) ==
    LET cs == DropCalls(a)
        tc == IF cs = <<>> THEN [out |-> "ok", slot |-> fns["FMalloc"], pois |-> poisoned]
              ELSE TableCall("FMalloc")
    IN [out |-> tc.out, slot |-> tc.slot, pois |-> tc.pois,
        calls |-> IF tc.out = "ok" THEN cs ELSE <<>>]

\* a.empty() of the live TArray i.
TArray_empty(i) ==
    /\ ~crashed
    /\ arrs[i].st = "array"
    /\ arrOp' = [op |-> "empty", id |-> i, data |-> arrs[i].data, calls |-> <<>>,
                 out |-> IF empty(arrs[i]) THEN "true" ELSE "false"]
    /\ arrOp' # arrOp
    /\ UNCHANGED <<apiVars, hostArr, arrs, hostFrees, localFrees, consumed>>

\* The live TArray i goes out of scope: <TArray as Drop>::drop.
TArray_drop(i) ==
    /\ ~crashed
    /\ arrs[i].st = "array"
    /\ LET e == DropEffect(arrs[i]) IN
       /\ fns' = [fns EXCEPT !["FMalloc"] = e.slot]
       /\ poisoned' = e.pois
       /\ crashed' = (e.out = "fault")
       /\ hostFrees' = FreesAfter(hostFrees, e.calls)
       /\ arrOp' = [op |-> "drop", id |-> i, data |-> arrs[i].data, calls |-> e.calls, out |-> e.out]
    /\ arrs' = [arrs EXCEPT ![i].st = "dropped"]
    /\ UNCHANGED <<instance, sdkField, pc, loc, gets, inits, panics, cachedRets,
                   firstParam, resolves, rets, hostStores, hostArr, localFrees, consumed>>

\* TArray::to_vec(self) on the live TArray i: Vec::from_raw_parts takes the triple,
\* and `self`, which is not forgotten, is dropped when the function returns.
TArray_to_vec(i) ==
    /\ ~crashed
    /\ arrs[i].st = "array"
    /\ LET e == DropEffect(arrs[i]) IN
       /\ fns' = [fns EXCEPT !["FMalloc"] = e.slot]
       /\ poisoned' = e.pois
       /\ crashed' = (e.out = "fault")
       /\ hostFrees' = FreesAfter(hostFrees, e.calls)
       /\ arrOp' = [op |-> "to_vec", id |-> i, data |-> arrs[i].data, calls |-> e.calls, out |-> e.out]
    /\ arrs' = [arrs EXCEPT ![i].st = "vec"]
    /\ consumed' = IF arrs[i].data # 0 THEN consumed \cup {arrs[i].data} ELSE consumed
    /\ UNCHANGED <<instance, sdkField, pc, loc, gets, inits, panics, cachedRets,
                   firstParam, resolves, rets, hostStores, hostArr, localFrees>>

\* The Vec made by to_vec goes out of scope: the local allocator deallocates its
\* buffer when its capacity is not 0.
Vec_drop(i) ==
    /\ ~crashed
    /\ arrs[i].st = "vec"
    /\ arrs' = [arrs EXCEPT ![i].st = "dropped"]
    /\ localFrees' = IF arrs[i].capacity # 0 /\ arrs[i].data # 0
                     THEN [localFrees EXCEPT ![arrs[i].data] = @ + 1] ELSE localFrees
    /\ arrOp' = [op |-> "vec_drop", id |-> i, data |-> arrs[i].data, calls |-> <<>>, out |-> "ok"]
    /\ UNCHANGED <<apiVars, hostArr, hostFrees, consumed>>

\* The host replaces its own array: another buffer, another count, or none.
Host_set_array(d) ==
    /\ ~crashed
    /\ d # hostArr
    /\ hostArr' = d
    /\ UNCHANGED <<apiVars, arrs, hostFrees, localFrees, consumed, arrOp>>

\* ------------------------------------------------- handles and raw pointers
\* The generated handle types modelled: UWorld has no @functions, so it has the
\* Ptr impl only; the others also have to_handle / from_handle.
PtrTypes == {"FMalloc", "UObject", "UWorld"}
HasHandle(T) == T \in TableTypes

Addrs == 0..NAddrs

\* A raw pointer is its pointee type and its address: *mut c_void, or the
\* bindings' handle type of T (named by T).
VoidPtr(a) == [pt |-> "c_void", addr |-> a]
HandlePtr(T, a) == [pt |-> T, addr |-> a]

\* `p as <pointer type>`: the pointee type changes, the address is kept.
PtrCast(p, t) == [pt |-> t, addr |-> p.addr]

\* <*mut T>::is_null
is_null_never(p) == FALSE

is_null(p) == p.addr = 0

\* impl Ptr: from_ptr is Self(ptr), to_ptr is self.0.
from_ptr(T, p) == [ty |-> T, ptr |-> p]

to_ptr_null(h) == VoidPtr(0)

to_ptr(h) == h.ptr

\* Ptr::is_invalid
is_invalid(h) == is_null(to_ptr(h))

\* Ptr::from_ptr_safe; an Option is written as a set of at most one value.
from_ptr_safe(T, p) == IF is_null(p) THEN {} ELSE {from_ptr(T, p)}

\* to_handle, from_handle, from_handle_safe of the generated impl.
to_handle(h) == PtrCast(to_ptr(h), h.ty)

from_handle(T, x) == [ty |-> T, ptr |-> PtrCast(x, "c_void")]

from_handle_safe(T, x) ==
    IF is_null(x) THEN {} ELSE {[ty |-> T, ptr |-> PtrCast(x, "c_void")]}

\* The conversions applied to one input (a type and an address).  done: the
\* conversions made so far; the other fields hold their results once made.
HsInput(T, a) ==
    [ty |-> T, addr |-> a, done |-> {},
     h |-> from_ptr(T, VoidPtr(0)), q |-> VoidPtr(0), h2 |-> from_ptr(T, VoidPtr(0)),
     hh |-> from_ptr(T, VoidPtr(0)), y |-> HandlePtr(T, 0), sp |-> {}, sh |-> {},
     inv |-> FALSE]

InitHandleVars == hs = HsInput("UObject", 0)

Hs_new_input(T, a) ==
    /\ hs' = HsInput(T, a)
    /\ hs' # hs
    /\ UNCHANGED <<apiVars, castVars, arrVars>>

\* let h = T::from_ptr(p);
Hs_from_ptr ==
    /\ "from_ptr" \notin hs.done
    /\ hs' = [hs EXCEPT !.h = from_ptr(hs.ty, VoidPtr(hs.addr)),
                        !.inv = is_invalid(from_ptr(hs.ty, VoidPtr(hs.addr))),
                        !.done = @ \cup {"from_ptr"}]
    /\ UNCHANGED <<apiVars, castVars, arrVars>>

\* let q = h.to_ptr();
Hs_to_ptr ==
    /\ "from_ptr" \in hs.done /\ "to_ptr" \notin hs.done
    /\ hs' = [hs EXCEPT !.q = to_ptr(hs.h), !.done = @ \cup {"to_ptr"}]
    /\ UNCHANGED <<apiVars, castVars, arrVars>>

\* let h2 = T::from_ptr(h.to_ptr());
Hs_from_ptr_again ==
    /\ "to_ptr" \in hs.done /\ "from_ptr_again" \notin hs.done
    /\ hs' = [hs EXCEPT !.h2 = from_ptr(hs.ty, hs.q), !.done = @ \cup {"from_ptr_again"}]
    /\ UNCHANGED <<apiVars, castVars, arrVars>>

\* let hh = T::from_handle(x);
Hs_from_handle ==
    /\ HasHandle(hs.ty) /\ "from_handle" \notin hs.done
    /\ hs' = [hs EXCEPT !.hh = from_handle(hs.ty, HandlePtr(hs.ty, hs.addr)),
                        !.done = @ \cup {"from_handle"}]
    /\ UNCHANGED <<apiVars, castVars, arrVars>>

\* let y = hh.to_handle();
Hs_to_handle ==
    /\ "from_handle" \in hs.done /\ "to_handle" \notin hs.done
    /\ hs' = [hs EXCEPT !.y = to_handle(hs.hh), !.done = @ \cup {"to_handle"}]
    /\ UNCHANGED <<apiVars, castVars, arrVars>>

\* let sp = T::from_ptr_safe(p);
Hs_from_ptr_safe ==
    /\ "from_ptr_safe" \notin hs.done
    /\ hs' = [hs EXCEPT !.sp = from_ptr_safe(hs.ty, VoidPtr(hs.addr)),
                        !.done = @ \cup {"from_ptr_safe"}]
    /\ UNCHANGED <<apiVars, castVars, arrVars>>

\* let sh = T::from_handle_safe(x);
Hs_from_handle_safe ==
    /\ HasHandle(hs.ty) /\ "from_handle_safe" \notin hs.done
    /\ hs' = [hs EXCEPT !.sh = from_handle_safe(hs.ty, HandlePtr(hs.ty, hs.addr)),
                        !.done = @ \cup {"from_handle_safe"}]
    /\ UNCHANGED <<apiVars, castVars, arrVars>>

\* ------------------------------------------------- RUObject::get_full_name
Nodes == 1..NNodes
\* The class object the host answers get_class with (an address no node has).
ClassObj == NNodes + 1

\* What get_fname().to_string() yields for a host object: its short name.
ShortNames == <<"Leaf", "Mid", "Root", "Pkg", "Top", "Lvl">>
Name(o) == IF o = ClassObj THEN "Cls" ELSE ShortNames[o]

\* A String is written as the sequence of its pieces.
\* format!("{}.{name}", outer_name)
PrefixOuter_suffix(outerName, name) == name \o <<".", outerName>>

PrefixOuter(outerName, name) == <<outerName, ".">> \o name

\* format!("{} {name}", class_name)
WithClass(className, name) == <<className, " ">> \o name

\* std::ptr::addr_eq(outer.to_ptr(), self.to_ptr())
IsSelf_never(outer, self) == FALSE

IsSelf(outer, self) == outer = self

NoFullName == [st |-> "idle", self |-> 0, class |-> 0, name |-> <<>>, current |-> 0,
               iters |-> 0, result |-> <<>>]

InitNameVars ==
    /\ outerOf = [o \in Nodes |-> 0]
    /\ fnSt = NoFullName

\* o.get_full_name() up to the loop: get_class (c is the host's answer),
\* class.cast::<UObject>() (isa is the host's answer to is_a), get_fname and
\* get_outer.  A null class or a failed cast returns the empty string; a class
\* name the host does not know panics in static_class().
get_full_name_start(o, c, isa) ==
    /\ ~crashed
    /\ fnSt.st # "loop"
    /\ LET tc  == TableCall("UObject")
           cls == IF tc.out = "ok" /\ c # 0 /\ GetOutcome(instance, tc.pois) = "ok"
                  THEN FindUObject(registry, "UObject") ELSE 0
           r   == CastResult(isa, c)
           st  == IF tc.out # "ok" THEN tc.out
                  ELSE IF c = 0 THEN "empty"
                  ELSE IF cls = 0 THEN "panic"
                  ELSE IF r.out = "None" THEN "empty"
                  ELSE "loop"
           nm  == IF st = "loop" THEN TableCall("FName") ELSE tc
       IN
       /\ fns' = [fns EXCEPT !["UObject"] = tc.slot,
                             !["FName"] = IF st = "loop" THEN nm.slot ELSE @]
       /\ poisoned' = IF c # 0 /\ tc.out = "ok" THEN PoisonAfterGet(instance, tc.pois) ELSE tc.pois
       /\ crashed' = (tc.out = "fault" \/ (st = "loop" /\ nm.slot = 0))
       /\ fnSt' = [st |-> st, self |-> o, class |-> IF st = "loop" THEN r.ptr ELSE 0,
                   name |-> IF st = "loop" THEN <<Name(o)>> ELSE <<>>,
                   current |-> IF st = "loop" THEN outerOf[o] ELSE 0,
                   iters |-> 0, result |-> <<>>]
    /\ UNCHANGED <<instance, sdkField, pc, loc, gets, inits, panics, cachedRets, firstParam,
                   resolves, rets, hostStores, outerOf>>

\* One iteration of `while let Some(outer) = current` that does not break.  The
\* loop has no bound of its own: a walk that goes on past MaxWalk iterations is
\* followed with its name and its count no longer growing.
get_full_name_step ==
    /\ ~crashed
    /\ fnSt.st = "loop"
    /\ fnSt.current # 0
    /\ ~IsSelf(fnSt.current, fnSt.self)
    /\ fnSt' = [fnSt EXCEPT !.name = IF fnSt.iters < MaxWalk
                                     THEN PrefixOuter(Name(fnSt.current), fnSt.name) ELSE @,
                            !.current = outerOf[fnSt.current],
                            !.iters = IF @ <= MaxWalk THEN @ + 1 ELSE MaxWalk]
    /\ UNCHANGED <<apiVars, outerOf>>

\* The loop ends (current is None, or the outer is the object itself) and the
\* class name is put in front.
get_full_name_return ==
    /\ ~crashed
    /\ fnSt.st = "loop"
    /\ fnSt.current = 0 \/ IsSelf(fnSt.current, fnSt.self)
    /\ fnSt' = [fnSt EXCEPT !.st = "done", !.result = WithClass(Name(fnSt.class), fnSt.name)]
    /\ UNCHANGED <<apiVars, outerOf>>

\* The host gives object o another outer (between calls of get_full_name).
Host_set_outer(o, v) ==
    /\ ~crashed
    /\ fnSt.st # "loop"
    /\ outerOf[o] # v
    /\ outerOf' = [outerOf EXCEPT ![o] = v]
    /\ UNCHANGED <<apiVars, fnSt>>

\* --------------------------------------------------- plugin start-up (lib.rs)
\* What on_initialize does: it returns, or it panics with a payload that is a
\* &'static str (panic!("literal")) or a String (panic!("{}", x)); nul: the message
\* holds an interior NUL character.
Behaviours ==
    {[kind |-> "return", nul |-> FALSE]}
        \cup {[kind |-> k, nul |-> n] : k \in {"str", "String"}, n \in BOOLEAN}

\* The payload of `.expect("No plugin has been registered")` on None: the message
\* goes through panic_display, and whether the payload is the &str or a formatted
\* String is the standard library's choice.
ExpectPayloads == {[kind |-> k, nul |-> FALSE] : k \in {"str", "String"}}

NoStart == [phase |-> "idle", param |-> 0, cbNull |-> FALSE, payload |-> [kind |-> "return", nul |-> FALSE],
            failed |-> FALSE, ret |-> "none", logs |-> 0, setupEntered |-> FALSE, cbs |-> 0]

InitStartVars ==
    /\ plugin = FALSE
    /\ su = NoStart
    /\ hostCbs = {}
    /\ order = <<>>

\* order with event ev noted, when it is the first of its kind.
Noted(ord, ev) ==
    IF \E i \in 1..Len(ord) : ord[i] = ev THEN ord ELSE Append(ord, ev)

RECURSIVE NotedAll(_, _)
NotedAll(ord, evs) ==
    IF evs = <<>> THEN ord ELSE NotedAll(Noted(ord, Head(evs)), Tail(evs))

\* The process is not running any more once an entry point was left by a panic or
\* a fault.
Alive == su.ret \notin {"abort", "fault"}

\* DllMain: `plugin.on_dllmain();` and then `_GLOBAL_PLUGIN = Some(Box::new(plugin));`
DllMainEvents_registerFirst == <<"register_plugin", "on_dllmain">>

DllMainEvents == <<"on_dllmain", "register_plugin">>

\* error.downcast_ref::<&str>(): only a &str payload is recognised.
Downcasts(payload) == payload.kind = "str"

\* CString::new(text): Err when the text holds an interior NUL.
CStringOk(nul) == ~nul

\* DllMain with call_reason 1 (process attach): the plugin is built and stored.
DllMain_attach ==
    /\ su.phase \in {"idle", "end"}
    /\ ~plugin
    /\ plugin' = TRUE
    /\ order' = NotedAll(order, DllMainEvents)
    /\ UNCHANGED <<apiVars, su, hostCbs>>

\* `param.is_null() || (*param).callbacks.is_null()`
ParamRejected_paramOnly(p, cbNull) == p = 0

ParamRejected(p, cbNull) == p = 0 \/ cbNull

\* uevr_plugin_initialize(param), up to catch_unwind: the null tests, then
\* API::initialize(param), which panics out of the function on a poisoned Mutex.
uevr_plugin_initialize_enter(p, cbNull) ==
    /\ ~crashed
    /\ su.phase \in {"idle", "end"}
    /\ Alive
    /\ \A t \in Threads : pc[t] = "idle"
    /\ IF ParamRejected(p, cbNull)
       THEN /\ su' = [NoStart EXCEPT !.phase = "end", !.param = p, !.cbNull = cbNull, !.ret = "false"]
            /\ UNCHANGED <<instance, firstParam, inits, panics, order>>
       ELSE IF poisoned
       THEN /\ su' = [NoStart EXCEPT !.phase = "end", !.param = p, !.cbNull = cbNull, !.ret = "abort"]
            /\ panics' = panics \cup {"initialize"}
            /\ UNCHANGED <<instance, firstParam, inits, order>>
       ELSE /\ su' = [NoStart EXCEPT !.phase = "run", !.param = p, !.cbNull = cbNull]
            /\ instance' = InitializeBody(instance, p)
            /\ firstParam' = IF firstParam = 0 THEN p ELSE firstParam
            /\ inits' = inits \cup {p}
            /\ order' = Noted(order, "API::initialize")
            /\ UNCHANGED panics
    /\ UNCHANGED <<poisoned, sdkField, fns, crashed, pc, loc, gets, cachedRets, resolves, rets,
                   hostStores, plugin, hostCbs>>

\* The closure under catch_unwind: _GLOBAL_PLUGIN.as_ref().expect(..), then
\* plugin.on_initialize(), which behaves as b.
uevr_plugin_initialize_run(b, e) ==
    /\ su.phase = "run"
    /\ LET out == IF plugin THEN b ELSE e IN
       su' = [su EXCEPT !.phase = IF out.kind = "return" THEN "setup" ELSE "caught",
                        !.payload = out,
                        !.failed = out.kind # "return"]
    /\ order' = IF ~plugin THEN order
                ELSE IF b.kind = "return"
                THEN NotedAll(order, <<"on_initialize", "on_initialize_returned">>)
                ELSE Noted(order, "on_initialize")
    /\ UNCHANGED <<apiVars, plugin, hostCbs>>

\* The Err arm: the downcast, error!(..) (API::get, println, CString::new(..).unwrap(),
\* the host's log_error) and `return false`.  A panic here is outside catch_unwind
\* and leaves the extern "system" function by unwinding: the process aborts.
uevr_plugin_initialize_report ==
    /\ su.phase = "caught"
    /\ LET logs  == Downcasts(su.payload)
           got   == IF logs THEN GetOutcome(instance, poisoned) ELSE "ok"
           cstr  == CStringOk(su.payload.nul)
       IN
       /\ su' = [su EXCEPT !.phase = "end",
                           !.logs = IF logs /\ got = "ok" /\ cstr THEN 1 ELSE 0,
                           !.ret = IF logs /\ (got # "ok" \/ ~cstr) THEN "abort" ELSE "false"]
       /\ poisoned' = IF logs THEN PoisonAfterGet(instance, poisoned) ELSE poisoned
    /\ UNCHANGED <<instance, sdkField, fns, crashed, pc, loc, gets, inits, panics, cachedRets,
                   firstParam, resolves, rets, hostStores, plugin, hostCbs, order>>

\* The registration slots in the order setup_callbacks goes through them: the
\* first NUnchecked are taken with unwrap_unchecked, the others with unwrap.
NUnchecked == 5
Slots == 1..NCallbacks

\* The slots setup_callbacks has called when slot u is the one the host left
\* unpopulated (0: the host populated every slot).
Registered(u) == IF u = 0 THEN Slots ELSE 1..(u - 1)

\* How setup_callbacks ends.  unwrap() on an unpopulated slot panics, and the panic
\* leaves the extern "system" function by unwinding; unwrap_unchecked() on an
\* unpopulated slot is undefined: the null function pointer is called, or the
\* debug assertion of unwrap_unchecked stops the process.
SetupOutcomes(u) ==
    IF u = 0 THEN {"true"}
    ELSE IF u <= NUnchecked THEN {"fault", "abort"}
    ELSE {"abort"}

\* setup_callbacks(..) and `true`: the registration functions of the host are
\* called in order, each with the matching trampoline.  (The sdk pointer of the
\* block and its callbacks pointer are what the host filled in, not null.)
uevr_plugin_initialize_setup(u) ==
    /\ su.phase = "setup"
    /\ \E r \in SetupOutcomes(u) :
          su' = [su EXCEPT !.phase = "end", !.setupEntered = TRUE,
                           !.cbs = Cardinality(Registered(u)), !.ret = r]
    /\ hostCbs' = hostCbs \cup Registered(u)
    /\ order' = IF Registered(u) # {} THEN Noted(order, "register_callback") ELSE order
    /\ UNCHANGED <<apiVars, plugin>>

\* The host raises the event of slot k: the trampoline registered there runs the
\* plugin's method when _GLOBAL_PLUGIN is Some.
Host_dispatch(k) ==
    /\ Alive
    /\ k \in hostCbs
    /\ order' = IF plugin THEN Noted(order, "dispatch") ELSE order
    /\ UNCHANGED <<apiVars, plugin, su, hostCbs>>

\* ------------------------------------------ foreign queries that may find nothing
\* What a query hands its caller: an Option (None, or Some of the handle in val)
\* or a handle returned as it is (bare).
OptOf(S) == [opt |-> IF S = {} THEN "None" ELSE "Some", val |-> S]
Bare(h) == [opt |-> "bare", val |-> {h}]

NoQuery == [q |-> "none", entry |-> TRUE, answer |-> 0, out |-> "none", res |-> OptOf({})]

InitQueryVars == qry = NoQuery

\* `.unwrap()` on an entry of a function table (an Option of a function pointer):
\* an entry the host left unpopulated is None and unwrap panics.
EntryUnwrap(e) == IF e THEN "ok" ELSE "entry_panic"

\* A query through the function table of ty ("" for a query that reads the SDK
\* data through API::get directly): the table is resolved on first use, its entry
\* (e: the host populated it) is unwrapped, the host answers address a, and the
\* caller gets res.
ForeignQuery(q, ty, e, a, res) ==
    /\ ~crashed
    /\ \A t \in Threads : pc[t] = "idle"
    /\ LET tc == IF ty # "" THEN TableCall(ty)
                 ELSE [out |-> IF GetOutcome(instance, poisoned) = "ok" THEN "ok" ELSE "panic",
                       slot |-> 0, pois |-> PoisonAfterGet(instance, poisoned)]
       IN
       /\ fns' = IF ty # "" THEN [fns EXCEPT ![ty] = tc.slot] ELSE fns
       /\ poisoned' = tc.pois
       /\ crashed' = (tc.out = "fault")
       /\ qry' = [q |-> q, entry |-> e, answer |-> a,
                  out |-> IF tc.out = "ok" THEN EntryUnwrap(e) ELSE tc.out,
                  res |-> IF tc.out = "ok" /\ EntryUnwrap(e) = "ok" THEN res ELSE OptOf({})]
    /\ UNCHANGED <<instance, sdkField, pc, loc, gets, inits, panics, cachedRets, firstParam,
                   resolves, rets, hostStores>>

\* API::find_uobject: `if ptr.is_null() { return None }`, else Some(T::from_ptr(ptr)).
API_find_uobject(a, e) ==
    ForeignQuery("find_uobject", "", e, a, OptOf(from_ptr_safe("UObject", VoidPtr(a))))

\* RUObject::get_class, RUObject::get_outer: from_handle_safe.
RUObject_get_class(a, e) ==
    ForeignQuery("get_class", "UObject", e, a, OptOf(from_handle_safe("UClass", HandlePtr("UClass", a))))

RUObject_get_outer(a, e) ==
    ForeignQuery("get_outer", "UObject", e, a, OptOf(from_handle_safe("UObject", HandlePtr("UObject", a))))

\* RFField::get_next: from_handle_safe.
RFField_get_next(a, e) ==
    ForeignQuery("RFField::get_next", "FField", e, a,
                 OptOf(from_handle_safe("FField", HandlePtr("FField", a))))

\* RUField::get_next: UField::from_handle.
RUField_get_next(a, e) ==
    ForeignQuery("RUField::get_next", "UField", e, a, Bare(from_handle("UField", HandlePtr("UField", a))))

\* RUStruct::get_super_struct, find_function, find_property: from_handle.
RUStruct_get_super_struct(a, e) ==
    ForeignQuery("get_super_struct", "UStruct", e, a,
                 Bare(from_handle("UStruct", HandlePtr("UStruct", a))))

RUStruct_find_function(a, e) ==
    ForeignQuery("find_function", "UStruct", e, a,
                 Bare(from_handle("UFunction", HandlePtr("UFunction", a))))

RUStruct_find_property(a, e) ==
    ForeignQuery("find_property", "UStruct", e, a,
                 Bare(from_handle("FProperty", HandlePtr("FProperty", a))))

\* FConsoleManager::find_object, find_variable, find_command: from_handle.
FConsoleManager_find_object(a, e) ==
    ForeignQuery("find_object", "FConsoleManager", e, a,
                 Bare(from_handle("IConsoleObject", HandlePtr("IConsoleObject", a))))

FConsoleManager_find_variable(a, e) ==
    ForeignQuery("find_variable", "FConsoleManager", e, a,
                 Bare(from_handle("IConsoleVariable", HandlePtr("IConsoleVariable", a))))

FConsoleManager_find_command(a, e) ==
    ForeignQuery("find_command", "FConsoleManager", e, a,
                 Bare(from_handle("IConsoleCommand", HandlePtr("IConsoleCommand", a))))

\* UClass::get_first_object_matching::<UObject>: activate(), from_handle_safe on the
\* host's answer, and_then cast (isa: the host's answer to is_a for a found object;
\* static_class() panics when the host does not know the class name).
UClass_get_first_object_matching(a, e, isa) ==
    /\ a # 0 => FindUObject(registry, "UObject") # 0
    /\ ForeignQuery("get_first_object_matching", IF a = 0 THEN "" ELSE "UObject", e, a,
                    LET raw == from_handle_safe("UObject", HandlePtr("UObject", a)) IN
                    OptOf({h \in raw : CastResult(isa, a).out = "Some"}))

\* --------------------------------------- buffers of the layer the host fills
\* The last exchange: the host calls made, the host's answer to the size query,
\* the elements of the buffer allocated (buf), the capacity passed with the
\* buffer (cap), the elements the host wrote (written) and the elements of the
\* result handed to the caller (len).
NoFill == [fn |-> "none", out |-> "none", calls |-> <<>>, size |-> 0, buf |-> 0, cap |-> 0,
           written |-> 0, len |-> 0]

InitFillVars == fill = NoFill

Min(a, b) == IF a <= b THEN a ELSE b

\* What the host does with a buffer: it writes the elements it has (avail), up to
\* the capacity it was given.
HostWrites(cap, avail) == Min(cap, avail)

\* The size query, the `size == 0` early return, the allocation of size elements
\* and the fill call with capacity cap; avail: the elements the host has when the
\* fill call is made.
SizeThenFill(fn, pre, hostFn, size, cap, avail) ==
    IF size = 0
    THEN [NoFill EXCEPT !.fn = fn, !.out = "ok", !.calls = pre \o <<hostFn>>]
    ELSE [fn |-> fn, out |-> "ok", calls |-> pre \o <<hostFn, hostFn>>, size |-> size,
          buf |-> size, cap |-> cap, written |-> HostWrites(cap, avail), len |-> size]

\* An exchange made through the function table of ty ("" when the functions are
\* reached through API::get or a parameter-block pointer): rec is what happens once
\* the function pointer is in hand.
FillExchange(fn, ty, rec) ==
    /\ ~crashed
    /\ \A t \in Threads : pc[t] = "idle"
    /\ LET tc == IF ty # "" THEN TableCall(ty)
                 ELSE [out |-> IF GetOutcome(instance, poisoned) = "ok" THEN "ok" ELSE "panic",
                       slot |-> 0, pois |-> PoisonAfterGet(instance, poisoned)]
       IN
       /\ fns' = IF ty # "" THEN [fns EXCEPT ![ty] = tc.slot] ELSE fns
       /\ poisoned' = tc.pois
       /\ crashed' = (tc.out = "fault")
       /\ fill' = IF tc.out = "ok" THEN rec ELSE [NoFill EXCEPT !.fn = fn, !.out = tc.out]
    /\ UNCHANGED <<instance, sdkField, pc, loc, gets, inits, panics, cachedRets, firstParam,
                   resolves, rets, hostStores>>

\* API::get_persistent_dir: `vec![0u16; size]` and `fun(result.as_mut_ptr(), size + 1)`.
API_get_persistent_dir(size, avail) ==
    FillExchange("get_persistent_dir", "",
                 SizeThenFill("get_persistent_dir", <<>>, "get_persistent_dir", size, size + 1, avail))

\* FName::to_string: `vec![0u16; size]` and `fun(handle, ptr.as_mut_ptr(), size)`.
FName_to_string(size, avail) ==
    FillExchange("to_string", "FName",
                 SizeThenFill("to_string", <<>>, "to_string", size, size, avail))

\* vr::get_mod_value: one call, `fun(key, result.as_mut_ptr(), 256)` on the array
\* of 256 elements.  (The VR table is the vr pointer of the parameter block.)
vr_get_mod_value(avail) ==
    FillExchange("get_mod_value", "",
                 [fn |-> "get_mod_value", out |-> "ok", calls |-> <<"get_mod_value">>, size |-> 0,
                  buf |-> ModValueLen, cap |-> ModValueLen,
                  written |-> HostWrites(ModValueLen, avail),
                  len |-> HostWrites(ModValueLen, avail)])

\* UClass::get_objects_matching_raw: activate(), the count query with a null
\* buffer, Vec::with_capacity(size), set_len(size) and the fill call with capacity
\* size, whose return value is not looked at.  size, avail: the objects of the class
\* the host has at the first and at the second call.
UClass_get_objects_matching_raw(size, avail) ==
    FillExchange("get_objects_matching_raw", "",
                 SizeThenFill("get_objects_matching_raw", <<"activate">>, "get_objects_by_class",
                              size, size, avail))

\* ------------------------------------------- TArray::begin and TArray::end
\* size_of::<T>() of the element types tried: u8, u16 and a pointer.
ElemSizes == {1, 2, 8}

\* A TArray<T> drawn as input (addresses count bytes), the calls made on it (done)
\* and their results (b, e).
IterInput(d, n, sz) == [data |-> d, count |-> n, esize |-> sz, done |-> {}, b |-> 0, e |-> 0]

InitIterVars == iter = IterInput(0, 0, 1)

\* <*const T>::byte_add(n): the address n bytes on, whatever size_of::<T>() is.
byte_add(p, n, sz) == p + n

\* TArray::begin
begin(a) == a.data

\* TArray::end
end(a) == IF a.data = 0 THEN 0 ELSE byte_add(a.data, a.count, a.esize)

Iter_new_input(d, n, sz) ==
    /\ iter' = IterInput(d, n, sz)
    /\ iter' # iter
    /\ UNCHANGED <<apiVars, castVars, arrVars>>

\* let b = a.begin();
Iter_begin ==
    /\ "begin" \notin iter.done
    /\ iter' = [iter EXCEPT !.b = begin(iter), !.done = @ \cup {"begin"}]
    /\ UNCHANGED <<apiVars, castVars, arrVars>>

\* let e = a.end();
Iter_end ==
    /\ "end" \notin iter.done
    /\ iter' = [iter EXCEPT !.e = end(iter), !.done = @ \cup {"end"}]
    /\ UNCHANGED <<apiVars, castVars, arrVars>>

InitPureVars ==
    /\ InitHandleVars /\ InitNameVars /\ InitStartVars /\ InitQueryVars /\ InitFillVars
    /\ InitIterVars

InitApi ==
    /\ instance = 0
    /\ poisoned = FALSE
    /\ sdkField = [p \in Params |-> [ty \in TableTypes |-> HostTable(p, ty)]]
    /\ fns = [ty \in TableTypes |-> 0]
    /\ crashed = FALSE
    /\ pc = [t \in Threads |-> "idle"]
    /\ loc = [t \in Threads |-> NoLocals]
    /\ gets = {}
    /\ inits = {}
    /\ panics = {}
    /\ cachedRets = [ty \in TableTypes |-> {}]
    /\ firstParam = 0
    /\ resolves = [ty \in TableTypes |-> [t \in Threads |-> 0]]
    /\ rets = [ty \in TableTypes |-> {}]
    /\ hostStores = 0

Init == InitApi /\ InitCastVars /\ InitArrVars /\ InitPureVars

NextApi ==
    /\ UNCHANGED <<castVars, arrVars, pureVars, startVars>>
    /\ \E t \in Threads :
        \/ \E p \in Params : API_initialize(t, p)
        \/ API_get(t)
        \/ \E ty \in RacedTypes : initialize_check(t, ty)
        \/ initialize_resolve(t, TRUE)
        \/ initialize_write(t)
        \/ initialize_return(t, TRUE)

NextHost ==
    /\ UNCHANGED <<castVars, arrVars, pureVars, startVars>>
    /\ \E p \in Params, ty \in RacedTypes, v \in {0, FreshTable} : Host_store_field(p, ty, v)

\* The singleton and the table slots under concurrent callers, with the host's
\* SDK data block left as the host filled it in.
Spec == Init /\ [][NextApi]_vars

NextTable ==
    /\ UNCHANGED <<castVars, arrVars, pureVars, startVars>>
    /\ \E t \in Threads :
        \/ \E ty \in RacedTypes : initialize_check(t, ty)
        \/ initialize_resolve(t, FALSE)
        \/ initialize_write(t)
        \/ initialize_return(t, FALSE)

\* The state once uevr_plugin_initialize has installed a parameter block.
InitInstalled ==
    \E p \in Params :
        /\ instance = p
        /\ firstParam = p
        /\ poisoned = FALSE
        /\ sdkField = [q \in Params |-> [ty \in TableTypes |-> HostTable(q, ty)]]
        /\ fns = [ty \in TableTypes |-> 0]
        /\ crashed = FALSE
        /\ pc = [t \in Threads |-> "idle"]
        /\ loc = [t \in Threads |-> NoLocals]
        /\ gets = {}
        /\ inits = {}
        /\ panics = {}
        /\ cachedRets = [ty \in TableTypes |-> {}]
        /\ resolves = [ty \in TableTypes |-> [t \in Threads |-> 0]]
        /\ rets = [ty \in TableTypes |-> {}]
        /\ hostStores = 0

\* The table slots under concurrent callers once the singleton is installed, with
\* a host that also rewrites its SDK data block.
InitTableHost == InitInstalled /\ InitCastVars /\ InitArrVars /\ InitPureVars

SpecTableHost == InitTableHost /\ [][NextTable \/ NextHost]_vars

\* The singleton as the host may have left it when plugin code runs: empty, or
\* holding a parameter block.
InitCast ==
    /\ \E p \in 0..NParams : instance = p /\ firstParam = p
    /\ poisoned = FALSE
    /\ sdkField = [q \in Params |-> [ty \in TableTypes |-> HostTable(q, ty)]]
    /\ fns = [ty \in TableTypes |-> 0]
    /\ crashed = FALSE
    /\ pc = [t \in Threads |-> "idle"]
    /\ loc = [t \in Threads |-> NoLocals]
    /\ gets = {}
    /\ inits = {}
    /\ panics = {}
    /\ cachedRets = [ty \in TableTypes |-> {}]
    /\ resolves = [ty \in TableTypes |-> [t \in Threads |-> 0]]
    /\ rets = [ty \in TableTypes |-> {}]
    /\ hostStores = 0
    /\ InitCastVars
    /\ InitArrVars
    /\ InitPureVars

NextCast ==
    /\ UNCHANGED <<arrVars, pureVars, startVars>>
    /\ \/ \E o \in Objs, T \in ClassTypes : cast(o, T)
       \/ \E T \in ClassTypes : StaticClass_static_class_safe(T)
       \/ \E T \in ClassTypes : StaticClass_static_class(T)
       \/ \E o \in Objs, T \in ClassTypes : StaticClass_is_a(o, T)
       \/ \E o \in Objs, T \in ClassTypes : Ptr_unsafe_cast(o, T)
       \/ \E T \in ClassTypes : Host_register(T)
       \/ \E o \in Objs, T \in ClassTypes : Host_set_is_a(o, ClassAddr(T))

\* Downcasts by plugin code against a host whose registry and type relation change.
SpecCast == InitCast /\ [][NextCast]_vars

NextArray ==
    /\ UNCHANGED <<castVars, pureVars, startVars>>
    /\ \/ FConsoleManager_get_console_objects
       \/ \E i \in ArrIds : TArray_clone(i)
       \/ \E i \in ArrIds : TArray_empty(i)
       \/ \E i \in ArrIds : TArray_drop(i)
       \/ \E i \in ArrIds : TArray_to_vec(i)
       \/ \E i \in ArrIds : Vec_drop(i)
       \/ \E d \in HostDescs : Host_set_array(d)

\* The singleton is installed before plugin code can hold an array.
InitArray == InitInstalled /\ InitCastVars /\ InitArrVars /\ InitPureVars

\* Arrays obtained from the host, cloned, consumed and dropped by plugin code once
\* the singleton is installed.
SpecArray == InitArray /\ [][NextArray]_vars

NextHandle ==
    /\ UNCHANGED <<nameVars, startVars, qry, fill, iter>>
    /\ \/ \E T \in PtrTypes, a \in Addrs : Hs_new_input(T, a)
       \/ Hs_from_ptr
       \/ Hs_to_ptr
       \/ Hs_from_ptr_again
       \/ Hs_from_handle
       \/ Hs_to_handle
       \/ Hs_from_ptr_safe
       \/ Hs_from_handle_safe

\* The pointer/handle conversions applied to every type and address.
SpecHandle == Init /\ [][NextHandle]_vars

NextName ==
    /\ UNCHANGED <<castVars, arrVars, hs, startVars, qry, fill, iter>>
    /\ \/ \E o \in Nodes, c \in {0, ClassObj}, isa \in BOOLEAN : get_full_name_start(o, c, isa)
       \/ get_full_name_step
       \/ get_full_name_return
       \/ \E o \in Nodes, v \in 0..NNodes : Host_set_outer(o, v)

\* The singleton holds the first parameter block when plugin code asks for names.
InitName == InitTableHost /\ instance = 1

\* get_full_name on the objects of a host whose outer links change between calls.
SpecName == InitName /\ [][NextName]_vars

\* The same, with a call of get_full_name that has started running on: an iteration
\* or the return that can be taken is eventually taken.
SpecNameFair ==
    /\ SpecName
    /\ WF_vars(/\ UNCHANGED <<castVars, arrVars, hs, startVars, qry, fill, iter>>
               /\ (get_full_name_step \/ get_full_name_return))

NextStart ==
    /\ UNCHANGED <<castVars, arrVars, hs, nameVars, qry, fill, iter>>
    /\ \/ DllMain_attach
       \/ \E p \in 0..NParams, cbNull \in BOOLEAN : uevr_plugin_initialize_enter(p, cbNull)
       \/ \E b \in Behaviours, e \in ExpectPayloads : uevr_plugin_initialize_run(b, e)
       \/ uevr_plugin_initialize_report
       \/ \E u \in 0..NCallbacks : uevr_plugin_initialize_setup(u)
       \/ \E k \in Slots : Host_dispatch(k)
       \/ \E t \in Threads : API_get(t) /\ UNCHANGED startVars

\* The host loads the plugin library and calls its entry points; plugin code may
\* call API::get at any time.
SpecStart == Init /\ [][NextStart]_vars

NextQuery ==
    /\ UNCHANGED <<castVars, arrVars, hs, nameVars, startVars, fill, iter>>
    /\ \E a \in Addrs, e \in BOOLEAN :
        \/ API_find_uobject(a, e)
        \/ RUObject_get_class(a, e)
        \/ RUObject_get_outer(a, e)
        \/ RFField_get_next(a, e)
        \/ RUField_get_next(a, e)
        \/ RUStruct_get_super_struct(a, e)
        \/ RUStruct_find_function(a, e)
        \/ RUStruct_find_property(a, e)
        \/ FConsoleManager_find_object(a, e)
        \/ FConsoleManager_find_variable(a, e)
        \/ FConsoleManager_find_command(a, e)
        \/ \E isa \in BOOLEAN : UClass_get_first_object_matching(a, e, isa)

\* The queries for which the host may answer null, made once the singleton is
\* installed.
SpecQuery == InitTableHost /\ [][NextQuery]_vars

\* The same queries against a host that also rewrites its SDK data block.
SpecQueryHost == InitTableHost /\ [][NextQuery \/ NextHost]_vars

NextFill ==
    /\ UNCHANGED <<castVars, arrVars, hs, nameVars, startVars, qry, iter>>
    /\ \E size \in 0..MaxFill, avail \in 0..(MaxFill + 1) :
        \/ API_get_persistent_dir(size, avail)
        \/ FName_to_string(size, avail)
        \/ vr_get_mod_value(avail)
        \/ UClass_get_objects_matching_raw(size, avail)

\* The exchanges in which the host fills a buffer of the layer, made once the
\* singleton is installed.
SpecFill == InitTableHost /\ [][NextFill]_vars

NextIter ==
    /\ UNCHANGED <<hs, nameVars, startVars, qry, fill>>
    /\ \/ \E d \in Addrs, n \in 0..MaxCount, sz \in ElemSizes : Iter_new_input(d, n, sz)
       \/ Iter_begin
       \/ Iter_end

\* begin() and end() applied to arrays of every data pointer, count and element size.
SpecIter == Init /\ [][NextIter]_vars

\* ------------------------------------------------------- claims on downcasts
\* C1: a cast yields Some exactly when the host's is_a, asked about the handle and
\* the class found for the target type, answered true; when the host answered
\* false the cast yields None, which is a value and neither a panic nor a fault.
C1_CastIffIsA ==
    castOp.op = "cast" =>
        /\ (castOp.out = "Some") <=> (castOp.isaCalls = 1 /\ castOp.isaAnswer)
        /\ (castOp.isaCalls = 1 /\ ~castOp.isaAnswer) => castOp.out = "None"
        /\ castOp.isaCalls = 1 =>
              /\ castOp.isaObj = castOp.obj
              /\ castOp.isaClass = ClassAddr(castOp.target)

\* The host was asked, answered false for a live object that is of another
\* class, and the cast came back None.
C1_Witness ==
    /\ castOp.op = "cast"
    /\ castOp.obj # 0
    /\ castOp.isaCalls = 1
    /\ ~castOp.isaAnswer
    /\ castOp.out = "None"
    /\ \E c \in {ClassAddr(T) : T \in ClassTypes} : <<castOp.obj, c>> \in hostIsA

\* ---------------------------------------------------------- claims on TArray
\* The number of FMalloc::free calls with pointer b among the host calls cs.
RECURSIVE FreeCalls(_, _)
FreeCalls(cs, b) ==
    IF cs = <<>> THEN 0
    ELSE (IF Head(cs) = <<"FMalloc::free", b>> THEN 1 ELSE 0) + FreeCalls(Tail(cs), b)

IsNullArray(a) == a.data = 0 /\ a.count = 0 /\ a.capacity = 0

\* C2: every host buffer is freed at most once, over any sequence of clone, drop
\* and to_vec on the descriptors that refer to it (get_console_objects' copy
\* included): the host free function is called at most once with its pointer and
\* no second owner frees it.
C2_BufferFreedAtMostOnce ==
    \A b \in Bufs : hostFrees[b] + localFrees[b] <= 1

\* C3: to_vec consumes the array without its own drop path freeing the buffer: the
\* to_vec call makes no host free call for the buffer it hands to the Vec.
C3_ToVecMakesNoHostFree ==
    arrOp.op = "to_vec" => FreeCalls(arrOp.calls, arrOp.data) = 0

\* C4: dropping a TArray that has a non-null data pointer and was not consumed
\* calls the host's free function exactly once, with the array's data pointer, and
\* releases nothing through the local allocator.
C4_DropFreesOnceThroughHost ==
    [][\A i \in ArrIds :
          (/\ arrs[i].st = "array"
           /\ arrs'[i].st = "dropped"
           /\ arrs[i].data # 0
           /\ arrOp'.out = "ok")
          => /\ arrOp'.op = "drop" /\ arrOp'.id = i
             /\ FreeCalls(arrOp'.calls, arrs[i].data) = 1
             /\ \A k \in 1..Len(arrOp'.calls) :
                   arrOp'.calls[k][1] = "FMalloc::free" => arrOp'.calls[k][2] = arrs[i].data
             /\ hostFrees' = [hostFrees EXCEPT ![arrs[i].data] = @ + 1]
             /\ localFrees' = localFrees]_vars

C4_Witness ==
    /\ arrOp.op = "drop"
    /\ arrOp.out = "ok"
    /\ arrOp.data # 0
    /\ arrs[arrOp.id].st = "dropped"
    /\ hostFrees[arrOp.data] = 1

\* C5: a TArray with data = null, count = 0 and capacity = 0 reports empty() =
\* true, and dropping it calls neither FMalloc::get nor free.
C5_NullArrayEmptyAndDropIsNoOp ==
    /\ \A i \in ArrIds : arrs[i].st # "free" /\ IsNullArray(arrs[i]) => empty(arrs[i])
    /\ arrOp.op \in {"empty", "drop"} /\ IsNullArray(arrs[arrOp.id]) =>
          /\ arrOp.op = "empty" => arrOp.out = "true"
          /\ arrOp.op = "drop" => arrOp.calls = <<>> /\ arrOp.out = "ok"

C5_Witness ==
    /\ arrOp.op = "drop"
    /\ IsNullArray(arrs[arrOp.id])
    /\ arrs[arrOp.id].st = "dropped"
    /\ arrOp.calls = <<>>
    /\ \A b \in Bufs : hostFrees[b] = 0

\* ------------------------------------------ claims on the lazy table slots
\* The number of times the resolution path of ty has run, over all threads.
RECURSIVE SumResolves(_, _)
SumResolves(ty, n) == IF n = 0 THEN 0 ELSE resolves[ty][n] + SumResolves(ty, n - 1)

\* A first-use call of ty that found the slot null and has not stored yet.
ResolverInFlight(ty) ==
    \E t \in Threads : pc[t] \in {"tbl_resolve", "tbl_write"} /\ loc[t].ty = ty

\* C6: with the SDK data block left as the host filled it in, all calls of
\* initialize() for a type, concurrent first calls and later calls alike, return
\* one and the same table pointer.
C6_SameTablePointer == \A ty \in TableTypes : Cardinality(rets[ty]) <= 1

\* Two threads both ran the first-use path of one type, every call has returned,
\* and a later call has returned the cached slot.
C6_Witness ==
    \E ty \in TableTypes :
        /\ Cardinality({t \in Threads : resolves[ty][t] >= 1}) >= 2
        /\ \A t \in Threads : pc[t] = "idle"
        /\ cachedRets[ty] # {}
        /\ rets[ty] # {}

\* C7 as claimed: once a slot is non-null no step writes it with another value,
\* whatever the host stores in the SDK data block.
C7_SlotNeverRewritten ==
    [][\A ty \in TableTypes : fns[ty] # 0 => fns'[ty] = fns[ty]]_vars

\* C7 as amended: whatever the host stores, a call that starts when the slot is
\* non-null goes straight to returning it and never writes it; a non-null slot
\* changes only by the store of a first-use call that had found it null before.
C7_SlotWrittenOnlyByFirstUse ==
    [][\A ty \in TableTypes :
          /\ (fns[ty] # 0 /\ fns'[ty] # fns[ty]) => ResolverInFlight(ty)
          /\ \A t \in Threads :
                (pc[t] = "idle" /\ pc'[t] # "idle" /\ loc'[t].ty = ty /\ fns[ty] # 0)
                    => pc'[t] = "tbl_ret"]_vars

\* The slot is set, the host has since stored another pointer in the field, and a
\* call that found the slot set is about to return it.
C7_Witness ==
    \E ty \in TableTypes, t \in Threads :
        /\ instance # 0
        /\ fns[ty] # 0
        /\ sdkField[instance][ty] # fns[ty]
        /\ pc[t] = "tbl_ret" /\ loc[t].ty = ty /\ ~loc[t].resolved

C9_TableIsSdkField ==
    \A ty \in TableTypes : \A v \in rets[ty] :
        instance # 0 /\ v = sdkField[instance][ty]

\* A first call and a later call (served from the slot) have both returned.
C9_Witness ==
    \E ty \in TableTypes :
        /\ cachedRets[ty] # {}
        /\ \E t \in Threads : resolves[ty][t] = 1
        /\ \A t \in Threads : pc[t] = "idle"

\* --------------------------------------------------- claims on the singleton
\* C10: the singleton is empty until the first API::initialize that holds the
\* lock stores its block, it holds that block from then on whatever blocks later
\* initialize calls pass, and every API::get that returns, returns that block.
C10_SingletonWriteOnce ==
    /\ instance \in {0, firstParam}
    /\ instance = 0 <=> firstParam = 0
    /\ gets \subseteq ({firstParam} \ {0})
    /\ (inits # {} => instance = firstParam /\ firstParam \in inits)

\* Two initialize calls with different blocks have returned and a get has returned.
C10_Witness ==
    /\ Cardinality(inits) >= 2
    /\ gets # {}
    /\ \A t \in Threads : pc[t] = "idle"

\* C11: while the singleton is empty no API::get has returned, no table has been
\* resolved, stored or returned (every such call panicked before reaching the SDK
\* data), and a non-null table slot implies the singleton is installed.
C11_NothingBeforeInitialize ==
    /\ instance = 0 =>
          /\ gets = {}
          /\ \A ty \in TableTypes :
                /\ rets[ty] = {} /\ cachedRets[ty] = {}
                /\ \A t \in Threads : resolves[ty][t] = 0
          /\ \A t \in Threads : pc[t] \notin {"tbl_write", "tbl_ret"}
          /\ ~crashed
    /\ \A ty \in TableTypes : fns[ty] # 0 => instance # 0

\* An API::get and a first use of a table have both panicked on the empty singleton.
C11_Witness ==
    /\ instance = 0
    /\ {"get", "table"} \subseteq panics
    /\ \A t \in Threads : pc[t] = "idle"

\* -------------------------------------------- claims on handle conversions
\* C12: from_ptr(p).to_ptr() is p, from_ptr(h.to_ptr()) is the handle h itself, and
\* from_handle(x).to_handle() is x, for every type and every address.
C12_RoundTrips ==
    /\ "to_ptr" \in hs.done => hs.q = VoidPtr(hs.addr)
    /\ "from_ptr_again" \in hs.done => hs.h2 = hs.h
    /\ "to_handle" \in hs.done => hs.y = HandlePtr(hs.ty, hs.addr)

\* All three round trips were made on a non-null address.
C12_Witness ==
    /\ hs.addr # 0
    /\ {"to_ptr", "from_ptr_again", "to_handle"} \subseteq hs.done

\* C13: from_ptr_safe(null) is None and from_ptr_safe(p) is Some(from_ptr(p)) for
\* a non-null p; from_handle_safe relates to from_handle in the same way.
C13_SafeConstructors ==
    /\ "from_ptr_safe" \in hs.done =>
          hs.sp = IF hs.addr = 0 THEN {}
                  ELSE {[ty |-> hs.ty, ptr |-> VoidPtr(hs.addr)]}
    /\ {"from_ptr_safe", "from_ptr"} \subseteq hs.done /\ hs.addr # 0 => hs.sp = {hs.h}
    /\ "from_handle_safe" \in hs.done =>
          hs.sh = IF hs.addr = 0 THEN {}
                  ELSE {[ty |-> hs.ty, ptr |-> VoidPtr(hs.addr)]}
    /\ {"from_handle_safe", "from_handle"} \subseteq hs.done /\ hs.addr # 0 => hs.sh = {hs.hh}

\* Both safe constructors were applied to the null address.
C13_Witness ==
    /\ hs.addr = 0
    /\ {"from_ptr_safe", "from_handle_safe"} \subseteq hs.done
    /\ hs.sp = {} /\ hs.sh = {}

\* ------------------------------------------------- claims on get_full_name
\* The number of outers above o when its outer chain ends in null within n links,
\* -1 when it does not.
RECURSIVE ChainLen(_, _)
ChainLen(o, n) ==
    IF outerOf[o] = 0 THEN 0
    ELSE IF n = 0 THEN -1
    ELSE LET k == ChainLen(outerOf[o], n - 1) IN IF k < 0 THEN -1 ELSE k + 1

\* "On.….O1.S": the names along a finite outer chain, outermost first.
RECURSIVE PathOf(_)
PathOf(o) == IF outerOf[o] = 0 THEN <<Name(o)>> ELSE PathOf(outerOf[o]) \o <<".", Name(o)>>

\* C14: for an object whose outer chain is finite, get_full_name returns the class
\* name, one space, and the short names from the outermost outer down to the
\* object joined by '.'; with no outer that is "C S".
C14_FullNameOfFiniteChain ==
    [][(fnSt.st = "loop" /\ fnSt'.st = "done" /\ ChainLen(fnSt.self, NNodes) >= 0) =>
          /\ fnSt'.result = <<"Cls", " ">> \o PathOf(fnSt.self)
          /\ fnSt'.iters = ChainLen(fnSt.self, NNodes)
          /\ ChainLen(fnSt.self, NNodes) = 0 =>
                fnSt'.result = <<"Cls", " ", Name(fnSt.self)>>]_vars

\* Leaf inside Mid inside Root, of class Cls: "Cls Root.Mid.Leaf".
C14_Witness ==
    /\ fnSt.st = "done"
    /\ fnSt.self = 1 /\ outerOf[1] = 2 /\ outerOf[2] = 3 /\ outerOf[3] = 0
    /\ fnSt.result = <<"Cls", " ", "Root", ".", "Mid", ".", "Leaf">>

\* C15: for an object whose outer is the object itself, get_full_name makes no
\* iteration of the chain walk and returns "C S".
C15_SelfOuterNoIteration ==
    [][(fnSt.st = "loop" /\ outerOf[fnSt.self] = fnSt.self) =>
          /\ fnSt.iters = 0
          /\ fnSt'.iters = 0
          /\ fnSt'.st = "done" => fnSt'.result = <<"Cls", " ", Name(fnSt.self)>>]_vars

C15_Witness ==
    /\ fnSt.st = "done"
    /\ outerOf[fnSt.self] = fnSt.self
    /\ fnSt.iters = 0
    /\ fnSt.result = <<"Cls", " ", Name(fnSt.self)>>

\* -------------------------------------------------- claims on plugin start-up
\* C16: when plugin initialization fails in uevr_plugin_initialize (on_initialize
\* panics, or no plugin is registered), the function returns false and
\* setup_callbacks is never entered: no host callback is registered.
C16_FailedStartReturnsFalse ==
    (su.phase = "end" /\ su.failed) =>
        /\ su.ret = "false"
        /\ ~su.setupEntered
        /\ su.cbs = 0

\* C17: whenever uevr_plugin_initialize returns false because plugin
\* initialization panicked, the host's log_error was called before the return,
\* whether the payload is a &str or a String.
C17_FailureIsLogged ==
    (su.phase = "end" /\ su.failed /\ su.ret = "false") => su.logs >= 1

\* ------------------------------------------------- claims on foreign queries
\* C18: every query for which the host may answer "not found" with a null handle
\* hands its caller None for a null answer: no panic, and no handle that wraps the
\* null pointer.
C18_NullAnswerIsNone ==
    (qry.q # "none" /\ qry.entry /\ qry.answer = 0) =>
        /\ qry.out = "ok"
        /\ qry.res.opt = "None"
        /\ \A h \in qry.res.val : ~is_invalid(h)

\* ------------------------------------------- claims on the class descriptor
\* A step of the layer (not of the host) that made the operation in castOp'.
CastStep == registry' = registry /\ hostIsA' = hostIsA /\ castOp'.op # "none"

\* C19: the class descriptor of a type is looked up once and cached: an operation
\* that needs the descriptor right after one that already looked it up for the
\* same type makes no find_uobject call.
C19_ClassLookedUpOnce ==
    [][(/\ CastStep
        /\ castOp.op \in {"cast", "static_class", "static_class_safe"}
        /\ castOp.finds = 1 /\ castOp.out # "panic"
        /\ castOp'.op \in {"cast", "static_class", "static_class_safe"}
        /\ castOp'.target = castOp.target)
       => castOp'.finds = 0]_vars

\* C20: every is_a and every cast that gets as far as the comparison asks the host
\* once, about the object it is called on, and its result is the host's answer at
\* that moment, whatever the host answered before.
C20_IsAAskedEveryCall ==
    [][(/\ CastStep
        /\ castOp'.op \in {"cast", "is_a"}
        /\ castOp'.out \in {"Some", "None", "true", "false"})
       => /\ castOp'.isaCalls = 1
          /\ castOp'.isaObj = castOp'.obj
          /\ castOp'.isaAnswer = (<<castOp'.isaObj, castOp'.isaClass>> \in hostIsA)
          /\ castOp'.out \in {"Some", "true"} <=> castOp'.isaAnswer]_vars

\* The host said yes to one call, changed its mind, and the next call about the
\* same object and class came out empty.
C20_Witness ==
    /\ castOp.op = "cast"
    /\ castOp.prev = "true"
    /\ castOp.isaCalls = 1
    /\ castOp.out = "None"

\* C21: unsafe_cast makes no host call (no find_uobject, no is_a), always yields a
\* handle of the target type, and that handle's pointer is the pointer of the handle
\* it was called on; a cast that yields Some likewise keeps the pointer.
C21_UnsafeCastKeepsPointer ==
    /\ castOp.op = "unsafe_cast" =>
          /\ castOp.finds = 0 /\ castOp.isaCalls = 0
          /\ castOp.out = "T"
          /\ castOp.ptr = castOp.obj
    /\ (castOp.op = "cast" /\ castOp.out = "Some") => castOp.ptr = castOp.obj

\* An unsafe_cast of a live object to a class the host says it is not an instance of.
C21_Witness ==
    /\ castOp.op = "unsafe_cast"
    /\ castOp.obj # 0
    /\ <<castOp.obj, ClassAddr(castOp.target)>> \notin hostIsA
    /\ castOp.out = "T"

\* C22: get_full_name terminates on every finite object graph: a call that has
\* entered the outer walk leaves it, also when an object on the chain other than
\* the starting one is its own outer or the chain loops back on an earlier outer.
C22_WalkTerminates == (fnSt.st = "loop" /\ ~crashed) ~> (fnSt.st = "done")

\* C23: when a function table is resolved its base pointer is null-checked and its
\* entries are not: a resolution that yields a null base pointer is detected before
\* the table is dereferenced (no call faults on a null table), while an entry the
\* host left unpopulated is used without a check (no call stops on a check of it).
C23_BaseCheckedEntriesNot ==
    /\ ~crashed
    /\ qry.out # "fault"
    /\ ~qry.entry => qry.out # "entry_panic"

\* C24: uevr_plugin_initialize called with a null parameter block, or with a block
\* whose callbacks pointer is null, returns false at once and changes nothing: the
\* singleton and its lock are as before, on_initialize is not run, nothing is
\* logged and no callback is registered.
C24_NullParamIsRejected ==
    [][(su.phase \in {"idle", "end"} /\ su' # su /\ (su'.param = 0 \/ su'.cbNull)) =>
          /\ su'.phase = "end"
          /\ su'.ret = "false"
          /\ ~su'.failed /\ su'.logs = 0
          /\ ~su'.setupEntered /\ su'.cbs = 0
          /\ UNCHANGED <<instance, poisoned, firstParam, inits, fns, plugin>>]_vars

\* A block with a null callbacks pointer was turned down with the plugin registered
\* and the singleton still empty.
C24_Witness ==
    /\ su.phase = "end"
    /\ su.param # 0 /\ su.cbNull
    /\ su.ret = "false"
    /\ plugin
    /\ instance = 0

\* Event a has occurred, and before the first b, whenever b has occurred.
Before(a, b) ==
    \A j \in 1..Len(order) : order[j] = b => \E i \in 1..(j - 1) : order[i] = a

\* C25: on_dllmain runs before the plugin is registered globally, API::initialize
\* completes before on_initialize starts, on_initialize returns normally before any
\* host callback is registered, and so no event callback is dispatched before
\* on_initialize has completed.
C25_StartupOrder ==
    /\ Before("on_dllmain", "register_plugin")
    /\ Before("API::initialize", "on_initialize")
    /\ Before("register_plugin", "on_initialize")
    /\ Before("on_initialize_returned", "register_callback")
    /\ Before("register_callback", "dispatch")
    /\ Before("on_initialize_returned", "dispatch")
    /\ plugin <=> \E i \in 1..Len(order) : order[i] = "register_plugin"
    /\ hostCbs # {} <=> \E i \in 1..Len(order) : order[i] = "register_callback"

\* A whole start-up followed by an event of the host.
C25_Witness ==
    order = <<"on_dllmain", "register_plugin", "API::initialize", "on_initialize",
              "on_initialize_returned", "register_callback", "dispatch">>

\* C26: uevr_plugin_initialize returns true only after all 15 host callbacks have
\* been registered, and a call never ends having registered some of them but not
\* all, also when the host left one registration slot unpopulated.
C26_AllCallbacksOrNone ==
    su.phase = "end" =>
        /\ su.ret = "true" => (su.cbs = NCallbacks /\ hostCbs = Slots)
        /\ su.cbs \in {0, NCallbacks}

\* C27: an API::get that fails (made before initialization, it panics) leaves the
\* singleton and its lock usable: the Mutex is not poisoned, so no later
\* API::initialize fails to take the lock and install the parameter block.
C27_FailedGetLeavesLockUsable ==
    /\ ~poisoned
    /\ "initialize" \notin panics

\* ------------------------------------------- claims on host-filled buffers
\* C28: get_objects_matching_raw activates the object hook, asks for the count
\* with a null buffer, returns an empty list without a second call when the count
\* is 0, and otherwise returns exactly count handles, every one of which the host
\* wrote during the second call, also when the host's objects changed in between.
C28_EveryHandleWritten ==
    (fill.fn = "get_objects_matching_raw" /\ fill.out = "ok") =>
        /\ Head(fill.calls) = "activate"
        /\ fill.size = 0 =>
              fill.len = 0 /\ fill.calls = <<"activate", "get_objects_by_class">>
        /\ fill.size # 0 =>
              /\ fill.calls = <<"activate", "get_objects_by_class", "get_objects_by_class">>
              /\ fill.len = fill.size
              /\ fill.written >= fill.len

\* C29: in every exchange in which the host fills a buffer (get_persistent_dir,
\* FName::to_string, get_mod_value, get_objects_matching_raw) the capacity passed
\* with the buffer is at most the number of elements allocated for it.
C29_CapacityWithinBuffer ==
    fill.out = "ok" => fill.cap <= fill.buf

\* ------------------------------------------------- claims on TArray iteration
\* C30: for a TArray<T> with a non-null data pointer end() is the address exactly
\* count elements past begin(), end() - begin() = count * size_of(T) bytes for every
\* element size; for a null data pointer end() is null.
C30_EndIsCountElementsOn ==
    {"begin", "end"} \subseteq iter.done =>
        IF iter.data = 0 THEN iter.e = 0
        ELSE iter.e - iter.b = iter.count * iter.esize
====
